---- MODULE Spec2Model ----
(***************************************************************************)
(* A model of the job loader (NewJob, the parameter expander) and of the   *)
(* core-aware scheduler (Job.Start with its run supervisors) of            *)
(* src/job/job.go and src/unnamed/part_000.                                *)
(*                                                                         *)
(* Go strings whose content matters (names, values, min/max/step) are      *)
(* sequences of one-character strings; the empty Go string is <<>>.        *)
(* Strings that the code only compares with literals (Type, StepMode) are  *)
(* TLA+ strings.                                                           *)
(***************************************************************************)
EXTENDS Integers, Sequences, FiniteSets, TLC

\* ------------------------------------------------------------------------
\* Bounds of the model
\* ------------------------------------------------------------------------
MaxTasks == 2      \* longest `only` list of a scheduled job (tasks of a job)
MaxStages == 2     \* most run stages of a job
MaxPool == 2       \* largest core pool (len(cfg.Cpus))
MaxCores == 2      \* largest `cores` a run stage declares
MaxParams == 2     \* most parameter declarations of an expanded job
MaxVals == 2       \* longest `only` list of an expanded declaration
MaxInt == 4        \* largest min and max of an integer declaration

Nil == 0           \* a vacant core map entry / no task run

\* The nil item a queue returns with an error
NoRun == [Name |-> 0, Cores |-> 0]

\* ------------------------------------------------------------------------
\* strconv
\* ------------------------------------------------------------------------
Digits == <<"0", "1", "2", "3", "4", "5", "6", "7", "8", "9">>

IsDigit(c) == \E d \in 1..10 : Digits[d] = c

DigitVal(c) == (CHOOSE d \in 1..10 : Digits[d] = c) - 1

RECURSIVE DigitsVal(_)
DigitsVal(s) ==
  IF s = <<>> THEN 0
  ELSE 10 * DigitsVal(SubSeq(s, 1, Len(s) - 1)) + DigitVal(s[Len(s)])

\* strconv.Atoi: an optional sign followed by at least one decimal digit.
Atoi(s) ==
  LET signed == s # <<>> /\ s[1] \in {"-", "+"}
      body   == IF signed THEN Tail(s) ELSE s
  IN  IF body = <<>> \/ \E k \in 1..Len(body) : ~IsDigit(body[k])
      THEN [ok |-> FALSE, val |-> 0]
      ELSE [ok |-> TRUE,
            val |-> IF signed /\ s[1] = "-" THEN 0 - DigitsVal(body)
                    ELSE DigitsVal(body)]

RECURSIVE NatDigits(_)
NatDigits(n) ==
  IF n < 10 THEN <<Digits[n + 1]>>
  ELSE NatDigits(n \div 10) \o <<Digits[(n % 10) + 1]>>

\* strconv.Itoa
Itoa(n) == IF n < 0 THEN <<"-">> \o NatDigits(0 - n) ELSE NatDigits(n)

\* ------------------------------------------------------------------------
\* Parameter expansion (paramPermutations, parseParamStr, parseParamInt)
\* ------------------------------------------------------------------------
\* A result of the expansion functions: err is "none", "error" (a returned
\* error), "panic" (a run-time panic) or "diverges" (the call never returns).
TaskParam(name, type, value) == [Name |-> name, Type |-> type, Value |-> value]

\* The zero value of TaskParam, as make([]TaskParam, n) fills a slice.
ZeroTaskParam == TaskParam(<<>>, "", <<>>)

OnlyParams(param) ==
  [k \in 1..Len(param.Only) |-> TaskParam(param.Name, param.Type, param.Only[k])]

DefaultParams(param) == <<TaskParam(param.Name, param.Type, param.Default)>>

parseParamStr(param) ==
  IF Len(param.Only) > 0 THEN [err |-> "none", params |-> OnlyParams(param)]
  ELSE IF Len(param.Default) > 0
       THEN [err |-> "none", params |-> DefaultParams(param)]
       ELSE [err |-> "none", params |-> <<>>]

\* for i := min; i <= max; i += step: the values appended, in order.  A
\* negative step never ends the loop (i only decreases): see parseParamInt.
RECURSIVE IncrementRange(_, _, _, _)
IncrementRange(param, i, max, step) ==
  IF i > max THEN <<>>
  ELSE <<TaskParam(param.Name, param.Type, Itoa(i))>>
         \o IncrementRange(param, i + step, max, step)

parseParamInt(param) ==
  IF Len(param.Only) > 0 THEN [err |-> "none", params |-> OnlyParams(param)]
  ELSE IF Len(param.Min) > 0 THEN
    LET min == Atoi(param.Min)
        max == Atoi(param.Max)
        st  == IF Len(param.Step) > 0 THEN Atoi(param.Step)
               ELSE [ok |-> TRUE, val |-> 1]
    IN  IF ~min.ok THEN [err |-> "error", params |-> <<>>]
        ELSE IF ~max.ok THEN [err |-> "error", params |-> <<>>]
        ELSE IF max.val < min.val THEN [err |-> "error", params |-> <<>>]
        ELSE IF ~st.ok \/ st.val = 0 THEN [err |-> "error", params |-> <<>>]
        ELSE IF param.StepMode = "" \/ param.StepMode = "increment" THEN
          IF st.val < 0 THEN [err |-> "diverges", params |-> <<>>]
          ELSE [err |-> "none",
                params |-> IncrementRange(param, min.val, max.val, st.val)]
        ELSE IF param.StepMode = "power" THEN
          \* the post statement math.Pow(...) leaves i unchanged: with
          \* min <= max the loop appends for ever
          [err |-> "diverges", params |-> <<>>]
        ELSE [err |-> "error", params |-> <<>>]
  ELSE IF Len(param.Default) > 0
       THEN [err |-> "none", params |-> DefaultParams(param)]
       ELSE [err |-> "none", params |-> <<>>]

paramPermutations(param) ==
  CASE param.Type = "string"  -> parseParamStr(param)
    [] param.Type = "int"     -> parseParamInt(param)
    [] param.Type = "integer" -> parseParamInt(param)
    [] OTHER                  -> [err |-> "error", params |-> <<>>]

\* ------------------------------------------------------------------------
\* Task expansion (Job.nextTask, Job.tasks)
\* ------------------------------------------------------------------------
\* var p = make([]TaskParam, len(j.Params)); copy(p, curr): the task's Params
\* have one entry per declaration, the entries curr does not reach are zero.
NewTask(Params, curr) ==
  [Params |-> [k \in 1..Len(Params) |->
                 IF k <= Len(curr) THEN curr[k] ELSE ZeroTaskParam]]

\* The `if len(curr) > 0 { ... curr = curr[:len(curr)-1] }` of the loop body.
\* (The callee's append may write into the caller's backing array, but only at
\* the position of an entry the caller pops next: value semantics are exact.)
PopSameName(curr, param) ==
  IF Len(curr) > 0 /\ curr[Len(curr)].Name = param.Name
  THEN SubSeq(curr, 1, Len(curr) - 1)
  ELSE curr

RECURSIVE nextTask(_, _, _, _)
RECURSIVE nextTaskLoop(_, _, _, _, _, _)

\* The for loop of nextTask from the k-th permutation of parameter i on.
nextTaskLoop(Params, i, params, k, tasks, curr) ==
  IF k > Len(params) THEN [err |-> "none", tasks |-> tasks]
  ELSE
    LET curr1 == Append(PopSameName(curr, params[k]), params[k])
    IN  IF i + 1 = Len(Params)
        THEN nextTaskLoop(Params, i, params, k + 1,
                          Append(tasks, NewTask(Params, curr1)), curr1)
        ELSE LET r == nextTask(Params, i + 1, <<>>, curr1)
             IN  IF r.err # "none" THEN [err |-> r.err, tasks |-> <<>>]
                 ELSE nextTaskLoop(Params, i, params, k + 1,
                                   tasks \o r.tasks, curr1)

\* i is the 0-based index of the code; j.Params[i] panics when out of range.
nextTask(Params, i, tasks, curr) ==
  IF i >= Len(Params) THEN [err |-> "panic", tasks |-> <<>>]
  ELSE LET pp == paramPermutations(Params[i + 1])
       IN  IF pp.err # "none" THEN [err |-> pp.err, tasks |-> <<>>]
           ELSE nextTaskLoop(Params, i, pp.params, 1, tasks, curr)

JobTasks(Params) == nextTask(Params, 0, <<>>, <<>>)

\* ------------------------------------------------------------------------
\* NewJob: validation of the run stages and initialisation of the tasks
\* ------------------------------------------------------------------------
\* The inner `for i, run := range job.Runs` from index k on.
RECURSIVE CheckRuns(_, _, _)
CheckRuns(Runs, k, ncpus) ==
  IF k > Len(Runs) THEN [err |-> "none", Runs |-> Runs]
  ELSE IF Runs[k].Cores > ncpus THEN [err |-> "error", Runs |-> Runs]
  ELSE IF Runs[k].Cores = 0
       THEN CheckRuns([Runs EXCEPT ![k].Cores = 1], k + 1, ncpus)
       ELSE CheckRuns(Runs, k + 1, ncpus)

\* Mutant: the runs are enqueued last first.
TaskInitReversed(Runs) == [k \in 1..Len(Runs) |-> Runs[Len(Runs) - k + 1]]

\* Task.Init: a queue holding the runs in order.
TaskInit(Runs) == Runs

\* The outer `for _, task := range tasks` from task t on; queues collects the
\* run queue of every task initialised so far.
RECURSIVE InitTasks(_, _, _, _, _)
InitTasks(ts, t, Runs, ncpus, queues) ==
  IF t > Len(ts) THEN [err |-> "none", Runs |-> Runs, queues |-> queues]
  ELSE LET c == CheckRuns(Runs, 1, ncpus)
       IN  IF c.err # "none"
           THEN [err |-> c.err, Runs |-> c.Runs, queues |-> <<>>]
           ELSE InitTasks(ts, t + 1, c.Runs, ncpus,
                          Append(queues, TaskInit(c.Runs)))

\* ------------------------------------------------------------------------
\* Task identity (Task.UUID)
\* ------------------------------------------------------------------------
\* fmt.Sprintf("%s=%s\n", param.Name, param.Value)
DigestLine(param) == param.Name \o <<"=">> \o param.Value \o <<"\n">>

RECURSIVE DigestInput(_)
DigestInput(Params) ==
  IF Params = <<>> THEN <<>>
  ELSE DigestLine(Head(Params)) \o DigestInput(Tail(Params))

\* md5 as a collision-free hash: the digest is determined by, and determines,
\* the bytes written.
UUID(t) == <<"md5", DigestInput(t.Params)>>

\* ------------------------------------------------------------------------
\* State
\* ------------------------------------------------------------------------
VARIABLES
  job,        \* the parsed job document and runtime config: Params, Runs, Cpus
  pc,         \* where the main goroutine is (NewJob, the loop of Job.Start)
  tasks,      \* the tasks NewJob created; a task is named by its index here
  runs,       \* runs[t]: task t's run queue (t.runs)
  waitList,   \* j.waitList: task indices in list order
  coreMap,    \* tasksInFlight: core id -> index into atrs, or Nil
  atrs,       \* every ActiveTaskRun constructed so far, with its supervisor
  wg,         \* the wait group's counter
  i,          \* the loop cursor of Job.Start
  freeCores,  \* the snapshot taken at the top of the iteration
  task,       \* the task fetched in this iteration (Nil before the first)
  nextRun,    \* the run peeked in this iteration
  cores,      \* the core ids selected for the run, those not yet set
  j,          \* the offset of the allocation loop
  activeTaskRun  \* the task run being dispatched (index into atrs)

vars == <<job, pc, tasks, runs, waitList, coreMap, atrs, wg, i, freeCores,
          task, nextRun, cores, j, activeTaskRun>>

driverVars == <<i, freeCores, task, nextRun, cores, j, activeTaskRun>>

\* ------------------------------------------------------------------------
\* Job documents
\* ------------------------------------------------------------------------
JobParam(name, type, only) ==
  [Name |-> name, Type |-> type, Default |-> <<>>, Only |-> only,
   Min |-> <<>>, Max |-> <<>>, Step |-> <<>>, StepMode |-> ""]

RECURSIVE SeqsUpTo(_, _)
\* All sequences over S of length at most n
SeqsUpTo(S, n) ==
  IF n = 0 THEN {<<>>}
  ELSE LET shorter == SeqsUpTo(S, n - 1)
       IN  shorter \cup {Append(q, x) : q \in shorter, x \in S}

RunsOf(coresSeq) == [k \in 1..Len(coresSeq) |-> [Name |-> k, Cores |-> coresSeq[k]]]

RunLists == {RunsOf(q) : q \in SeqsUpTo(0..MaxCores, MaxStages) \ {<<>>}}

CpuLists == {[k \in 1..n |-> k] : n \in 0..MaxPool}

\* The jobs the scheduler is run on: one string parameter whose `only` list
\* (possibly empty, possibly repeating a value) gives the tasks.
SchedJobs ==
  {[Params |-> <<JobParam(<<"p">>, "string", only)>>, Runs |-> rs, Cpus |-> cs] :
     only \in SeqsUpTo({<<"a">>, <<"b">>}, MaxTasks), rs \in RunLists, cs \in CpuLists}

\* ------------------------------------------------------------------------
\* Core map (CoreMap), wait list (List), run queue (Queue)
\* ------------------------------------------------------------------------
NewCoreMap(cpus) == [c \in {cpus[k] : k \in 1..Len(cpus)} |-> Nil]

Vacant(cm) == {c \in DOMAIN cm : cm[c] = Nil}

Occupied(cm) == {c \in DOMAIN cm : cm[c] # Nil}

\* All orders in which a snapshot may list the cores of S
Orders(S) ==
  {q \in [1..Cardinality(S) -> S] : \A a, b \in 1..Cardinality(S) : q[a] = q[b] => a = b}

\* CoreMap.Set fails when the id is no key of the map or is occupied
CanSet(cm, coreId) == coreId \in DOMAIN cm /\ cm[coreId] = Nil

\* List.Remove(idx): removal shifts the later elements left (idx is 0-based)
ListRemove(list, idx) ==
  [k \in 1..(Len(list) - 1) |-> IF k <= idx THEN list[k] ELSE list[k + 1]]

\* ------------------------------------------------------------------------
\* Initial state and load
\* ------------------------------------------------------------------------
InitWith(jobs) ==
  /\ job \in jobs
  /\ pc = "new"
  /\ tasks = <<>>
  /\ runs = <<>>
  /\ waitList = <<>>
  /\ coreMap = <<>>
  /\ atrs = <<>>
  /\ wg = 0
  /\ i = 0
  /\ freeCores = <<>>
  /\ task = Nil
  /\ nextRun = NoRun
  /\ cores = <<>>
  /\ j = 1
  /\ activeTaskRun = Nil

Init == InitWith(SchedJobs)

\* The jobs the expander is run on: up to MaxParams string parameters named
\* x or y (a name may repeat), each with an `only` list of up to MaxVals
\* values; one run stage of one core on a pool of one core.
ExpandDecls ==
  {JobParam(name, "string", only) :
     name \in {<<"x">>, <<"y">>}, only \in SeqsUpTo({<<"1">>, <<"2">>}, MaxVals)}

ExpandJobs ==
  {[Params |-> ps, Runs |-> RunsOf(<<1>>), Cpus |-> <<1>>] :
     ps \in SeqsUpTo(ExpandDecls, MaxParams)}

\* An integer declaration n with every field given
IntParam(type, only, default, min, max, step, stepMode) ==
  [Name |-> <<"n">>, Type |-> type, Default |-> default, Only |-> only,
   Min |-> min, Max |-> max, Step |-> step, StepMode |-> stepMode]

\* The integer ranges the expander is run on: min and max from -1 to MaxInt,
\* the step absent, positive or negative, every known step mode.
RangeDecls ==
  {IntParam(type, <<>>, <<>>, Itoa(min), Itoa(max), step, stepMode) :
     type \in {"int", "integer"}, min \in -1..MaxInt, max \in -1..MaxInt,
     step \in {<<>>, <<"1">>, <<"2">>, <<"3">>, <<"-", "1">>},
     stepMode \in {"", "increment", "power"}}

\* Declarations of which a field may be invalid (type, min, max, step, step
\* mode), with and without an `only` list and a default
FieldDecls ==
  {IntParam(type, only, default, min, max, step, stepMode) :
     type \in {"int", "float"},
     only \in {<<>>, << <<"7">> >>}, default \in {<<>>, <<"9">>},
     min \in {<<>>, <<"x">>, <<"1">>}, max \in {<<>>, <<"0">>, <<"1">>},
     step \in {<<>>, <<"0">>, <<"x">>, <<"1">>},
     stepMode \in {"", "increment", "bogus"}}

\* The declarations that stand before or after one of FieldDecls: a string
\* parameter with one value, and one with no value at all
OtherDecls == {JobParam(<<"s">>, "string", << <<"a">> >>),
               JobParam(<<"s">>, "string", <<>>)}

IntJobs ==
  {[Params |-> ps, Runs |-> RunsOf(<<1>>), Cpus |-> <<1>>] :
     ps \in {<<d>> : d \in RangeDecls \cup FieldDecls}
             \cup {<<d, o>> : d \in FieldDecls, o \in OtherDecls}
             \cup {<<o, d>> : d \in FieldDecls, o \in OtherDecls}}

\* The values task identities are computed on: the empty string, a letter and
\* a value holding a line break followed by "y="
UuidVals == {<<>>, <<"a">>, <<"\n", "y", "=">>}

\* Jobs of two string parameters x and y with `only` lists over UuidVals
UuidJobs ==
  {[Params |-> <<JobParam(<<"x">>, "string", xs), JobParam(<<"y">>, "string", ys)>>,
    Runs |-> RunsOf(<<1>>), Cpus |-> <<1>>] :
     xs \in SeqsUpTo(UuidVals, MaxVals), ys \in SeqsUpTo(UuidVals, MaxVals)}

InitLoad == InitWith(ExpandJobs \cup SchedJobs \cup IntJobs \cup UuidJobs)

\* NewJob, first part: tasks, err := job.tasks().  An error ends the load.
ExpandTasks ==
  /\ pc = "new"
  /\ LET r == JobTasks(job.Params)
     IN  /\ pc' = IF r.err = "none" THEN "expanded" ELSE r.err
         /\ tasks' = r.tasks
  /\ UNCHANGED <<job, runs, waitList, coreMap, atrs, wg, driverVars>>

\* NewJob, second part: the run stages are checked and every task is
\* initialised and added to the wait list; doRunCmd then calls j.Start.
LoadJob ==
  /\ pc = "expanded"
  /\ LET q == InitTasks(tasks, 1, job.Runs, Len(job.Cpus), <<>>)
     IN  IF q.err = "none"
         THEN /\ pc' = "loop"
              /\ job' = [job EXCEPT !.Runs = q.Runs]
              /\ runs' = q.queues
              /\ waitList' = [k \in 1..Len(tasks) |-> k]
              /\ coreMap' = NewCoreMap(job.Cpus)
         ELSE /\ pc' = "rejected"
              /\ UNCHANGED <<job, runs, waitList, coreMap>>
  /\ UNCHANGED <<tasks, atrs, wg, driverVars>>

\* ------------------------------------------------------------------------
\* Job.Start: the driver loop
\* ------------------------------------------------------------------------
\* for i := 0; j.waitList.Len() > 0; { freeCores = tasksInFlight.FreeCores();
\* if len(freeCores) == 0 { continue } ...
LoopHead ==
  /\ pc = "loop"
  /\ IF Len(waitList) = 0
     THEN /\ pc' = "wait"
          /\ UNCHANGED freeCores
     ELSE \E snap \in Orders(Vacant(coreMap)) :
            /\ freeCores' = snap
            /\ pc' = IF Len(snap) = 0 THEN "loop" ELSE "get"
  /\ UNCHANGED <<job, tasks, runs, waitList, coreMap, atrs, wg,
                 i, task, nextRun, cores, j, activeTaskRun>>

\* Queue.Peak: the head of the queue; the nil item and an error when empty
Peak(q) == IF Len(q) = 0 THEN NoRun ELSE Head(q)

PeakFails(q) == Len(q) = 0

\* the capacity test: len(freeCores) >= nextRun.(Run).Cores
Fits(free, run) == Len(free) >= run.Cores

\* j.waitList.Get(i), task.runs.Peak() and the capacity test
GetTask ==
  /\ pc = "get"
  /\ IF i < 0 \/ i >= Len(waitList)
     THEN /\ i' = 0
          /\ pc' = "loop"
          /\ UNCHANGED <<task, nextRun>>
     ELSE /\ i' = i
          /\ task' = waitList[i + 1]
          /\ nextRun' = Peak(runs[waitList[i + 1]])
          /\ pc' = IF PeakFails(runs[waitList[i + 1]]) THEN "iterator"
                   ELSE IF Fits(freeCores, Peak(runs[waitList[i + 1]]))
                        THEN "excl" ELSE "iterator"
  /\ UNCHANGED <<job, tasks, runs, waitList, coreMap, atrs, wg,
                 freeCores, cores, j, activeTaskRun>>

\* Mutant: the exclusion test is left out.
TaskIsActiveNever(cm, t) == FALSE

\* Mutant: the scan compares the task run (task and run) with the one about
\* to be dispatched, not the task alone.
TaskIsActiveSameRun(cm, t) ==
  \E c \in Occupied(cm) :
    /\ UUID(tasks[atrs[cm[c]].Task]) = UUID(tasks[t])
    /\ atrs[cm[c]].run.Name = nextRun.Name

\* The scan under the read lock: some entry of the core map holds a task run
\* whose task has the UUID of task t.
TaskIsActive(cm, t) ==
  \E c \in Occupied(cm) : UUID(tasks[atrs[cm[c]].Task]) = UUID(tasks[t])

\* Mutant: the last id of the snapshot is selected n times.
SelectCoresRepeat(free, n) == [k \in 1..n |-> free[Len(free)]]

\* Mutant: the ids are taken from the front of the snapshot.
SelectCoresFromHead(free, n) == [k \in 1..n |-> free[k]]

\* The n ids popped from the tail of the snapshot, in the order popped
SelectCores(free, n) == [k \in 1..n |-> free[Len(free) - k + 1]]

\* The exclusion test and the selection of the core ids
ExclusionTest ==
  /\ pc = "excl"
  /\ IF TaskIsActive(coreMap, task)
     THEN /\ pc' = "iterator"
          /\ UNCHANGED <<cores, freeCores>>
     ELSE /\ cores' = SelectCores(freeCores, nextRun.Cores)
          /\ freeCores' = SubSeq(freeCores, 1, Len(freeCores) - nextRun.Cores)
          /\ pc' = "newatr"
  /\ UNCHANGED <<job, tasks, runs, waitList, coreMap, atrs, wg,
                 i, task, nextRun, j, activeTaskRun>>

\* Mutant: Cancel leaves the queue as it is.
CancelKeeps(q) == q

\* Task.Cancel: t.runs.Clear()
Cancel(q) == <<>>

\* NewActiveTaskRun returns an error: the task is cancelled
NewActiveTaskRunFails ==
  /\ pc = "newatr"
  /\ runs' = [runs EXCEPT ![task] = Cancel(@)]
  /\ pc' = "iterator"
  /\ UNCHANGED <<job, tasks, waitList, coreMap, atrs, wg, driverVars>>

\* Queue.Dequeue: removes the head; an error, and no change, when empty
Dequeue(q) == IF Len(q) = 0 THEN q ELSE Tail(q)

\* NewActiveTaskRun succeeds; the run is dequeued
DequeueRun ==
  /\ pc = "newatr"
  /\ atrs' = Append(atrs, [Task |-> task, run |-> nextRun, CoreIds |-> cores,
                           st |-> "new", failed |-> FALSE, unset |-> 0])
  /\ activeTaskRun' = Len(atrs) + 1
  /\ nextRun' = Peak(runs[task])
  /\ runs' = [runs EXCEPT ![task] = Dequeue(@)]
  /\ j' = 1
  /\ pc' = IF Len(cores) > 0 THEN "set" ELSE "spawn"
  /\ UNCHANGED <<job, tasks, waitList, coreMap, wg, i, freeCores, task, cores>>

\* One turn of `for len(cores) > 0`: tasksInFlight.Set(cores[len(cores)-j], ..)
SetCore ==
  /\ pc = "set"
  /\ LET coreId == cores[Len(cores) - j + 1]
     IN  IF CanSet(coreMap, coreId)
         THEN /\ coreMap' = [coreMap EXCEPT ![coreId] = activeTaskRun]
              /\ cores' = SubSeq(cores, 1, Len(cores) - j)
              /\ pc' = IF Len(cores) - j > 0 THEN "set" ELSE "spawn"
              /\ j' = j
         ELSE /\ j' = IF j >= Len(cores) THEN 1 ELSE j + 1
              /\ UNCHANGED <<coreMap, cores, pc>>
  /\ UNCHANGED <<job, tasks, runs, waitList, atrs, wg,
                 i, freeCores, task, nextRun, activeTaskRun>>

\* wg.Add(1); go func() { ... }()
Spawn ==
  /\ pc = "spawn"
  /\ wg' = wg + 1
  /\ atrs' = [atrs EXCEPT ![activeTaskRun].st = "running"]
  /\ pc' = "iterator"
  /\ UNCHANGED <<job, tasks, runs, waitList, coreMap, driverVars>>

\* Mutant: the drain check is off by one.
DrainedEarly(q) == Len(q) <= 1

\* the drain check: task.(*Task).runs.Len() == 0
Drained(q) == Len(q) = 0

\* Mutant: the cursor never wraps.
AdvanceNoWrap(n, cur) == cur + 1

\* Mutant: the cursor goes back to the front of the list every time.
AdvanceReset(n, cur) == 0

\* the cursor after the drain check left it at cur, for a list of length n
Advance(n, cur) == IF n = cur + 1 THEN 0 ELSE cur + 1

\* iterator: the grace sleep, the drain check and the cursor advance
Iterator ==
  /\ pc = "iterator"
  /\ LET drained == Drained(runs[task])
         list    == IF drained THEN ListRemove(waitList, i) ELSE waitList
         cur     == IF drained THEN i - 1 ELSE i
     IN  /\ waitList' = list
         /\ i' = Advance(Len(list), cur)
  /\ pc' = "loop"
  \* task, nextRun, cores, j and activeTaskRun are variables of the loop
  \* body: the next iteration has new ones
  /\ task' = Nil
  /\ nextRun' = NoRun
  /\ cores' = <<>>
  /\ j' = 1
  /\ activeTaskRun' = Nil
  /\ UNCHANGED <<job, tasks, runs, coreMap, atrs, wg, freeCores>>

\* wg.Wait(); return nil
WaitGroupWait ==
  /\ pc = "wait"
  /\ wg = 0
  /\ pc' = "returned"
  /\ UNCHANGED <<job, tasks, runs, waitList, coreMap, atrs, wg, driverVars>>

Driver ==
  \/ LoopHead
  \/ GetTask
  \/ ExclusionTest
  \/ NewActiveTaskRunFails
  \/ DequeueRun
  \/ SetCore
  \/ Spawn
  \/ Iterator
  \/ WaitGroupWait

\* ------------------------------------------------------------------------
\* Job.Start: the supervisor goroutine of task run a
\* ------------------------------------------------------------------------
\* if err != nil { Cancel } else if returnCode != 0 { Cancel }
RunFailed(returnCode, err) == err \/ returnCode # 0

\* activeTaskRun.Start() returns (returnCode, err); a failed run cancels
RunnerReturns(a) ==
  /\ atrs[a].st = "running"
  /\ \E returnCode \in {0, 1}, err \in BOOLEAN :
       /\ atrs' = [atrs EXCEPT ![a].st = "returned",
                               ![a].failed = RunFailed(returnCode, err)]
       /\ runs' = IF RunFailed(returnCode, err)
                  THEN [runs EXCEPT ![atrs[a].Task] = Cancel(@)]
                  ELSE runs
  /\ UNCHANGED <<job, pc, tasks, waitList, coreMap, wg, driverVars>>

\* wg.Done()
SupervisorDone(a) ==
  /\ atrs[a].st = "returned"
  /\ wg' = wg - 1
  /\ atrs' = [atrs EXCEPT ![a].st =
                IF Len(atrs[a].CoreIds) > 0 THEN "release" ELSE "finished"]
  /\ UNCHANGED <<job, pc, tasks, runs, waitList, coreMap, driverVars>>

\* Mutant: every turn of the release loop unsets the first core id.
SupervisorUnsetFirst(a) ==
  /\ atrs[a].st = "release"
  /\ coreMap' = [coreMap EXCEPT ![atrs[a].CoreIds[1]] = Nil]
  /\ atrs' = [atrs EXCEPT ![a].unset = @ + 1,
                          ![a].st = IF atrs[a].unset + 1 = Len(atrs[a].CoreIds)
                                    THEN "finished" ELSE "release"]
  /\ UNCHANGED <<job, pc, tasks, runs, waitList, wg, driverVars>>

\* one turn of `for _, coreId := range activeTaskRun.CoreIds { Unset(coreId) }`
SupervisorUnset(a) ==
  /\ atrs[a].st = "release"
  /\ coreMap' = [coreMap EXCEPT ![atrs[a].CoreIds[atrs[a].unset + 1]] = Nil]
  /\ atrs' = [atrs EXCEPT ![a].unset = @ + 1,
                          ![a].st = IF atrs[a].unset + 1 = Len(atrs[a].CoreIds)
                                    THEN "finished" ELSE "release"]
  /\ UNCHANGED <<job, pc, tasks, runs, waitList, wg, driverVars>>

Supervisor(a) ==
  \/ RunnerReturns(a)
  \/ SupervisorDone(a)
  \/ SupervisorUnset(a)

\* ------------------------------------------------------------------------
\* Specifications
\* ------------------------------------------------------------------------
Next ==
  \/ ExpandTasks
  \/ LoadJob
  \/ Driver
  \/ \E a \in 1..Len(atrs) : Supervisor(a)

Spec == Init /\ [][Next]_vars

\* The load alone: NewJob on every job of the model
NextLoad ==
  \/ ExpandTasks
  \/ LoadJob

SpecLoad == InitLoad /\ [][NextLoad]_vars

\* The most task runs a job of the model can have
MaxAtrs == MaxTasks * MaxStages

\* The goroutines are scheduled fairly and every runner returns
Fairness ==
  /\ WF_vars(ExpandTasks \/ LoadJob \/ Driver)
  /\ \A a \in 1..MaxAtrs : WF_vars(a \in 1..Len(atrs) /\ Supervisor(a))

SpecFair == Init /\ [][Next]_vars /\ Fairness

\* ------------------------------------------------------------------------
\* Vocabulary of the properties
\* ------------------------------------------------------------------------
Atrs == 1..Len(atrs)

Range(q) == {q[k] : k \in 1..Len(q)}

\* The task runs that occupy an entry of the core map
InCoreMap == {coreMap[c] : c \in Occupied(coreMap)}

\* The supervisor of task run a has been spawned
Dispatched(a) == atrs[a].st # "new"

\* The runner of task run a has returned
RunnerTerminated(a) == atrs[a].st \in {"returned", "release", "finished"}

\* The runs dispatched for task t so far, in the order of their dispatch
DispatchedRuns(t) ==
  LET mine == SelectSeq([a \in Atrs |-> [atr |-> atrs[a], id |-> a]],
                        LAMBDA r : r.atr.Task = t /\ r.atr.st # "new")
  IN  [k \in 1..Len(mine) |-> mine[k].atr.run]

\* ------------------------------------------------------------------------
\* C1. Exclusion: for every task T, at most one ActiveTaskRun whose task is T
\* occupies entries of the core map.
\* ------------------------------------------------------------------------
C1_Exclusion ==
  \A t \in 1..Len(tasks) :
    Cardinality({a \in InCoreMap : atrs[a].Task = t}) <= 1

\* The driver has skipped a task that has a further stage queued and fits the
\* free cores, because a run of it is in the core map.
C1_Witness ==
  /\ pc = "iterator"
  /\ Len(runs[task]) > 0
  /\ Fits(freeCores, Peak(runs[task]))
  /\ \E a \in InCoreMap : atrs[a].Task = task

\* ------------------------------------------------------------------------
\* C2. Cancellation on failure: once the runner of stage k of task T has
\* failed, no stage of T declared after k is dispatched.
\* ------------------------------------------------------------------------
C2_NoDispatchAfterFailure ==
  \A a, b \in Atrs :
    (/\ atrs[a].Task = atrs[b].Task
     /\ atrs[a].failed
     /\ atrs[b].run.Name > atrs[a].run.Name) => ~Dispatched(b)

\* ------------------------------------------------------------------------
\* C3. Per-task stage order: the stages dispatched so far for a task are a
\* prefix of the job's declared runs (none skipped, reordered or repeated).
\* ------------------------------------------------------------------------
C3_StageOrder ==
  \A t \in 1..Len(tasks) :
    /\ Len(DispatchedRuns(t)) <= Len(job.Runs)
    /\ \A k \in 1..Len(DispatchedRuns(t)) :
         DispatchedRuns(t)[k].Name = job.Runs[k].Name

\* Some task has had two stages dispatched.
C3_Witness == \E t \in 1..Len(tasks) : Len(DispatchedRuns(t)) >= 2

\* ------------------------------------------------------------------------
\* C4. Stage sequencing: a later stage of a task has a core set or its
\* supervisor spawned only after the runner of each earlier stage of the task
\* has terminated and all cores of that stage have been released.
\* ------------------------------------------------------------------------
C4_StageSequencing ==
  \A a, b \in Atrs :
    (/\ atrs[a].Task = atrs[b].Task
     /\ atrs[a].run.Name < atrs[b].run.Name
     /\ (Dispatched(b) \/ b \in InCoreMap))
    => (RunnerTerminated(a) /\ a \notin InCoreMap)

\* The second stage of a task is running.
C4_Witness ==
  \E a, b \in Atrs :
    /\ atrs[a].Task = atrs[b].Task
    /\ atrs[a].run.Name < atrs[b].run.Name
    /\ atrs[b].st = "running"

\* ------------------------------------------------------------------------
\* C5. Core accounting.
\* ------------------------------------------------------------------------
\* The task runs under dispatch or dispatched whose supervisor has not finished
\* (a task run counts from its construction, so that the step between the
\* last Set and the go statement is not held against the claim)
ActiveSupervisors == {a \in Atrs : atrs[a].st # "finished"}

\* C5 as claimed: in every state the occupied core ids are exactly the
\* CoreIds of the active supervisors, and no id belongs to two of them.
C5_AccountingAtEveryInstant ==
  /\ Occupied(coreMap) = UNION {Range(atrs[a].CoreIds) : a \in ActiveSupervisors}
  /\ \A a, b \in ActiveSupervisors :
       a # b => Range(atrs[a].CoreIds) \cap Range(atrs[b].CoreIds) = {}

\* C5 as amended: every occupied core id is held by a task run that lists it
\* in CoreIds and whose supervisor has not finished, and a task run whose
\* supervisor has been dispatched and has not begun to release holds every one
\* of its CoreIds; so the occupied ids are the union of CoreIds whenever no
\* allocation and no release is under way.
C5_Accounting ==
  /\ \A c \in Occupied(coreMap) :
       /\ atrs[coreMap[c]].st # "finished"
       /\ c \in Range(atrs[coreMap[c]].CoreIds)
  /\ \A a \in Atrs :
       atrs[a].st \in {"running", "returned"} =>
         \A c \in Range(atrs[a].CoreIds) : coreMap[c] = a
  /\ ((pc \notin {"set", "spawn"} /\ \A a \in Atrs : atrs[a].st # "release")
        => Occupied(coreMap)
             = UNION {Range(atrs[a].CoreIds) : a \in ActiveSupervisors})

\* A supervisor has released one of its two cores while another run is active.
C5_Witness ==
  \E a, b \in Atrs :
    /\ atrs[a].st = "release"
    /\ atrs[a].unset = 1
    /\ Len(atrs[a].CoreIds) = 2
    /\ atrs[b].st = "running"

\* ------------------------------------------------------------------------
\* C6. Wait-list membership: the driver removes a task only in the drain
\* check and only when the task's run queue is empty, and a task of the wait
\* list whose run queue has become empty is eventually removed.
\* ------------------------------------------------------------------------
InWaitList(t) == t \in Range(waitList)

Started == pc \notin {"new", "expanded", "rejected", "error", "panic", "diverges"}

\* A step that changes the wait list of a started job is the drain check
\* removing the task of the iteration, whose queue is empty.
RemovalAtDrainCheck ==
  (Started /\ waitList' # waitList) =>
     /\ pc = "iterator"
     /\ Len(runs[task]) = 0
     /\ Range(waitList') = Range(waitList) \ {task}
     /\ Len(waitList') = Len(waitList) - 1

C6_WaitListMembership ==
  /\ [][RemovalAtDrainCheck]_vars
  /\ \A t \in 1..MaxTasks :
       (Started /\ InWaitList(t) /\ Len(runs[t]) = 0) ~> ~InWaitList(t)

\* A task cancelled with a stage still queued has left the wait list.
C6_Witness ==
  \E a \in Atrs :
    /\ atrs[a].failed
    /\ atrs[a].run.Name < Len(job.Runs)
    /\ ~InWaitList(atrs[a].Task)

\* ------------------------------------------------------------------------
\* C7. Termination: after a successful load, with terminating runners and
\* fair scheduling, the loop reaches an empty wait list and Job.Start
\* returns, and it returns only after every dispatched supervisor has
\* signalled the wait group.
\* ------------------------------------------------------------------------
Signalled(a) == atrs[a].st \in {"release", "finished"}

C7_Termination ==
  /\ (pc = "loop") ~> (pc = "returned" /\ Len(waitList) = 0)
  /\ [](pc = "returned" => \A a \in Atrs : Signalled(a))

\* The same for a non-empty core pool.
C7_TerminationNonEmptyPool ==
  /\ (pc = "loop" /\ Len(job.Cpus) > 0) ~> (pc = "returned" /\ Len(waitList) = 0)
  /\ [](pc = "returned" => \A a \in Atrs : Signalled(a))

\* ------------------------------------------------------------------------
\* C8. Load-time core validation: NewJob fails for every job in which a run
\* stage declares more cores than the pool has, and after a successful NewJob
\* every queued run stage has 1 <= cores <= |pool|.
\* ------------------------------------------------------------------------
TooManyCores == \E k \in 1..Len(job.Runs) : job.Runs[k].Cores > Len(job.Cpus)

C8_CoreValidation ==
  [][pc = "expanded" =>
       /\ (TooManyCores => pc' = "rejected")
       /\ (pc' = "loop" =>
             \A t \in 1..Len(runs') : \A k \in 1..Len(runs'[t]) :
               /\ 1 <= runs'[t][k].Cores
               /\ runs'[t][k].Cores <= Len(job.Cpus))]_vars

\* ------------------------------------------------------------------------
\* C9. Expansion order: for every list of declarations (each of which has a
\* value list), Job.tasks returns the cartesian product of the value lists,
\* each combination once, the rightmost parameter varying fastest.
\* ------------------------------------------------------------------------
\* The value list of a declaration
ValuesOf(decl) ==
  [k \in 1..Len(paramPermutations(decl).params) |->
     paramPermutations(decl).params[k].Value]

AllDeclsValid ==
  \A k \in 1..Len(job.Params) : paramPermutations(job.Params[k]).err = "none"

RECURSIVE PrependEach(_, _)
PrependEach(v, combos) ==
  IF combos = <<>> THEN <<>>
  ELSE <<(<<v>> \o Head(combos))>> \o PrependEach(v, Tail(combos))

RECURSIVE Product(_)
RECURSIVE ProductFrom(_, _)
\* The combinations that start with a value of vals, in the order of vals
ProductFrom(vals, rest) ==
  IF vals = <<>> THEN <<>>
  ELSE PrependEach(Head(vals), Product(rest)) \o ProductFrom(Tail(vals), rest)

\* The cartesian product of the lists, in lexicographic order by position
Product(lists) ==
  IF lists = <<>> THEN << <<>> >>
  ELSE ProductFrom(Head(lists), Tail(lists))

TaskValues == [t \in 1..Len(tasks) |->
                 [k \in 1..Len(tasks[t].Params) |-> tasks[t].Params[k].Value]]

C9_ExpansionOrder ==
  (pc # "new" /\ AllDeclsValid) =>
     /\ pc \notin {"error", "panic", "diverges"}
     /\ TaskValues = Product([k \in 1..Len(job.Params) |-> ValuesOf(job.Params[k])])

\* ------------------------------------------------------------------------
\* C10. Assignment shape: every task emitted carries one triple per declared
\* parameter, the triple at position k named after the k-th declaration.
\* ------------------------------------------------------------------------
C10_AssignmentShape ==
  pc # "new" =>
    \A t \in 1..Len(tasks) :
      /\ Len(tasks[t].Params) = Len(job.Params)
      /\ \A k \in 1..Len(job.Params) :
           tasks[t].Params[k].Name = job.Params[k].Name

\* ------------------------------------------------------------------------
\* C11. Integer range, increment mode: an integer declaration without `only`,
\* with min <= max, a valid step (absent, or numeric and not zero) and step
\* mode empty or "increment" yields exactly min, min+step, min+2*step, ...
\* while the value is <= max, in that order.
\* ------------------------------------------------------------------------
IsRange(d) ==
  /\ d.Type \in {"int", "integer"}
  /\ d.Only = <<>>
  /\ Atoi(d.Min).ok
  /\ Atoi(d.Max).ok
  /\ Atoi(d.Min).val <= Atoi(d.Max).val
  /\ (d.Step = <<>> \/ (Atoi(d.Step).ok /\ Atoi(d.Step).val # 0))

StepOf(d) == IF d.Step = <<>> THEN 1 ELSE Atoi(d.Step).val

\* min, min+step, ... up to max, for a positive step
Arithmetic(min, max, step) ==
  [k \in 1..((max - min) \div step + 1) |-> <<Itoa(min + (k - 1) * step)>>]

Returned == pc \notin {"new", "error", "panic", "diverges"}

IncrementValues(d) ==
  /\ Returned
  /\ TaskValues = Arithmetic(Atoi(d.Min).val, Atoi(d.Max).val, StepOf(d))

C11_IncrementRange ==
  (/\ pc # "new"
   /\ Len(job.Params) = 1
   /\ IsRange(job.Params[1])
   /\ job.Params[1].StepMode \in {"", "increment"})
  => IncrementValues(job.Params[1])

\* The same for the positive steps.
C11_IncrementRangePositiveStep ==
  (/\ pc # "new"
   /\ Len(job.Params) = 1
   /\ IsRange(job.Params[1])
   /\ job.Params[1].StepMode \in {"", "increment"}
   /\ StepOf(job.Params[1]) > 0)
  => IncrementValues(job.Params[1])

\* ------------------------------------------------------------------------
\* C12. Integer range, power mode: an integer declaration without `only`,
\* with min <= max and step mode "power" yields exactly min, min*step,
\* min*step^2, ... while the value is <= max, in that order (stated for
\* min >= 1 and step >= 2, where the progression grows).
\* ------------------------------------------------------------------------
RECURSIVE Geometric(_, _, _)
Geometric(v, max, step) ==
  IF v > max THEN <<>>
  ELSE << <<Itoa(v)>> >> \o Geometric(v * step, max, step)

C12_PowerRange ==
  (/\ pc # "new"
   /\ Len(job.Params) = 1
   /\ IsRange(job.Params[1])
   /\ job.Params[1].StepMode = "power"
   /\ Atoi(job.Params[1].Min).val >= 1
   /\ StepOf(job.Params[1]) >= 2)
  => /\ Returned
     /\ TaskValues = Geometric(Atoi(job.Params[1].Min).val,
                               Atoi(job.Params[1].Max).val,
                               StepOf(job.Params[1]))

\* ------------------------------------------------------------------------
\* C13. Invalid declarations are load-fatal: when any declaration has an
\* unknown type, an invalid (non-numeric or zero) step, an unknown step mode
\* or max < min, the expansion returns an error, no task enters the wait
\* list and the loop is never started, wherever the declaration stands and
\* whatever `only` and default it and the other declarations carry.
\* ------------------------------------------------------------------------
InvalidDecl(d) ==
  \/ d.Type \notin {"string", "int", "integer"}
  \/ (d.Step # <<>> /\ (~Atoi(d.Step).ok \/ Atoi(d.Step).val = 0))
  \/ d.StepMode \notin {"", "increment", "power"}
  \/ (Atoi(d.Min).ok /\ Atoi(d.Max).ok /\ Atoi(d.Max).val < Atoi(d.Min).val)

C13_InvalidDeclFatal ==
  (pc # "new" /\ \E k \in 1..Len(job.Params) : InvalidDecl(job.Params[k]))
  => (pc = "error" /\ waitList = <<>>)

\* ------------------------------------------------------------------------
\* C14. Task identity: the uuid depends only on the ordered (name, value)
\* pairs of the assignment; tasks with identical assignments have equal
\* uuids, and two assignments over the same declarations that differ in a
\* value have different digest inputs.
\* ------------------------------------------------------------------------
Pairs(t) == [k \in 1..Len(t.Params) |-> <<t.Params[k].Name, t.Params[k].Value>>]

Names(t) == [k \in 1..Len(t.Params) |-> t.Params[k].Name]

C14_TaskIdentity ==
  pc # "new" =>
    \A t, u \in 1..Len(tasks) :
      /\ Pairs(tasks[t]) = Pairs(tasks[u]) => UUID(tasks[t]) = UUID(tasks[u])
      /\ (Names(tasks[t]) = Names(tasks[u]) /\ Pairs(tasks[t]) # Pairs(tasks[u]))
           => DigestInput(tasks[t].Params) # DigestInput(tasks[u].Params)

\* ------------------------------------------------------------------------
\* C15. Empty parameter list: a job with params = [], one run stage of one
\* core and a pool of one core loads into exactly one task with an empty
\* assignment (which is then dispatched once, after which the loop exits).
\* ------------------------------------------------------------------------
C15_EmptyParams ==
  (/\ job.Params = <<>>
   /\ Len(job.Runs) = 1
   /\ job.Runs[1].Cores = 1
   /\ Len(job.Cpus) = 1
   /\ pc \notin {"new", "expanded"})
  => /\ pc = "loop"
     /\ Len(tasks) = 1
     /\ tasks[1].Params = <<>>
     /\ waitList = <<1>>

\* ------------------------------------------------------------------------
\* C16. Capacity and core selection: a stage is dispatched only if the
\* snapshot of the free cores taken at the start of the iteration has at
\* least next.cores entries; its ActiveTaskRun is given exactly next.cores
\* pairwise distinct ids, the last next.cores entries of the snapshot, each
\* of them vacant when the snapshot was taken.
\* ------------------------------------------------------------------------
Distinct(q) == Cardinality(Range(q)) = Len(q)

\* The last n entries of q
TailOf(q, n) == {q[k] : k \in (Len(q) - n + 1)..Len(q)}

\* the snapshot lists the vacant cores, each once
SnapshotStep ==
  (pc = "loop" /\ pc' = "get") =>
     (Range(freeCores') = Vacant(coreMap) /\ Distinct(freeCores'))

\* nothing touches the snapshot between the loop head and the selection
SnapshotKept ==
  (pc = "get" \/ (pc = "excl" /\ pc' # "newatr")) => freeCores' = freeCores

SelectionStep ==
  (pc = "excl" /\ pc' = "newatr") =>
     /\ Len(freeCores) >= nextRun.Cores
     /\ Len(cores') = nextRun.Cores
     /\ Range(cores') = TailOf(freeCores, nextRun.Cores)
     /\ Distinct(cores')

\* the task run is constructed from the ids selected and the run peeked
ConstructionStep ==
  Len(atrs') > Len(atrs) =>
     /\ pc = "newatr"
     /\ atrs'[Len(atrs')].CoreIds = cores
     /\ atrs'[Len(atrs')].run = nextRun
     /\ Len(cores) = nextRun.Cores

C16_CoreSelection ==
  /\ [][SnapshotStep /\ SnapshotKept /\ SelectionStep /\ ConstructionStep]_vars
  /\ [](\A a \in Atrs : /\ Len(atrs[a].CoreIds) = atrs[a].run.Cores
                         /\ Distinct(atrs[a].CoreIds))

\* A run has been dispatched from a snapshot that had more entries than the
\* run has cores.
C16_Witness ==
  /\ pc = "iterator"
  /\ activeTaskRun # Nil
  /\ Dispatched(activeTaskRun)
  /\ Len(freeCores) >= 1

\* ------------------------------------------------------------------------
\* C17. Construction failure: when NewActiveTaskRun fails the task's queue
\* is cleared, nothing is dequeued as dispatched, no core map entry is set
\* and no supervisor is spawned; the drain check of the same iteration
\* removes the task, and the queues and the membership of the other tasks
\* are untouched.
\* ------------------------------------------------------------------------
\* The driver is at the iterator label with ids selected and not allocated
ConstructionFailed == pc = "iterator" /\ cores # <<>>

OthersUntouched ==
  \A t \in 1..Len(tasks) : t # task => runs'[t] = runs[t]

FailureStep ==
  (pc = "newatr" /\ pc' = "iterator") =>
     /\ runs'[task] = <<>>
     /\ OthersUntouched
     /\ atrs' = atrs
     /\ coreMap' = coreMap
     /\ wg' = wg
     /\ waitList' = waitList

DrainStep ==
  (ConstructionFailed /\ pc' # pc) =>
     /\ pc' = "loop"
     /\ ~(task \in Range(waitList'))
     /\ Range(waitList') = Range(waitList) \ {task}
     /\ OthersUntouched
     /\ coreMap' = coreMap

C17_ConstructionFailure ==
  /\ [][FailureStep /\ DrainStep]_vars
  /\ [](ConstructionFailed => (runs[task] = <<>> /\ activeTaskRun = Nil))

\* The construction failed for a task while another task, with a stage
\* queued, is in the wait list.
C17_Witness ==
  /\ ConstructionFailed
  /\ \E t \in 1..Len(tasks) : t # task /\ InWaitList(t) /\ Len(runs[t]) > 0

\* ------------------------------------------------------------------------
\* C18. Supervisor release order: a supervisor unsets every core of its
\* CoreIds before it signals the wait group, so that every core is vacant
\* when Job.Start returns.
\* ------------------------------------------------------------------------
C18_ReleaseBeforeSignal ==
  /\ \A a \in Atrs : Signalled(a) => a \notin InCoreMap
  /\ pc = "returned" => Occupied(coreMap) = {}

\* ------------------------------------------------------------------------
\* C19. Queue access discipline: no Task.Cancel of a supervisor takes
\* effect between the driver's peek of a stage and its dequeue of that
\* stage: when the driver is about to dequeue, the head of the queue is the
\* run it peeked.
\* ------------------------------------------------------------------------
C19_QueueDiscipline ==
  pc = "newatr" => (runs[task] # <<>> /\ Head(runs[task]) = nextRun)

\* ------------------------------------------------------------------------
\* C20. Round-robin walk: the cursor moves only at the advance step; there
\* it goes to the task that follows the visited one in list order, with
\* wrap-around, also when the visited task is removed; the order of the
\* remaining tasks is kept, so no task that stays in the list is skipped.
\* ------------------------------------------------------------------------
\* the task visited is the one under the cursor
CursorOnTask ==
  pc \in {"excl", "newatr", "set", "spawn", "iterator"} =>
     (0 <= i /\ i < Len(waitList) /\ task = waitList[i + 1])

\* The task after position idx (0-based) of list, cyclically
Successor(list, idx) == list[((idx + 1) % Len(list)) + 1]

RoundRobinStep ==
  /\ (Started /\ i' # i) => pc = "iterator"
  /\ (pc = "iterator" /\ pc' = "loop") =>
       /\ waitList' = SelectSeq(waitList,
                                LAMBDA t : t # task \/ Len(runs[task]) > 0)
       /\ waitList' # <<>> =>
            /\ 0 <= i'
            /\ i' < Len(waitList')
            /\ waitList'[i' + 1] = Successor(waitList, i)

C20_RoundRobin == [][RoundRobinStep]_vars /\ []CursorOnTask

\* The last task of a list of two is about to be removed: the cursor wraps.
C20_Witness ==
  /\ pc = "iterator"
  /\ Len(waitList) = 2
  /\ i = 1
  /\ Len(runs[task]) = 0

\* ------------------------------------------------------------------------
\* C21. Failure isolation: a runner failure of a stage of task T changes
\* only T's run queue (the queues, the wait-list membership and the cores
\* of the other tasks are unchanged by it), and every stage of every task
\* that is never cancelled is eventually dispatched.
\* ------------------------------------------------------------------------
\* The runner of task run a returns with a failure in this step
FailsNow(a) ==
  atrs[a].st = "running" /\ atrs'[a].st = "returned" /\ atrs'[a].failed

FailureFrame ==
  \A a \in Atrs :
    FailsNow(a) =>
      /\ \A t \in 1..Len(tasks) : t # atrs[a].Task => runs'[t] = runs[t]
      /\ runs'[atrs[a].Task] = <<>>
      /\ waitList' = waitList
      /\ coreMap' = coreMap

StageDispatched(t, k) ==
  \E a \in Atrs : atrs[a].Task = t /\ atrs[a].run.Name = k /\ Dispatched(a)

\* Task t was cancelled (by a failed runner or a failed construction)
\* before its stage k was dequeued
CancelledBefore(t, k) ==
  t <= Len(runs) /\ runs[t] = <<>> /\ ~StageDispatched(t, k)

C21_FailureIsolation ==
  /\ [][FailureFrame]_vars
  /\ \A t \in 1..MaxTasks : \A k \in 1..MaxStages :
       (pc = "loop" /\ t <= Len(tasks) /\ k <= Len(job.Runs))
         ~> (StageDispatched(t, k) \/ CancelledBefore(t, k))

\* The same for a non-empty core pool.
C21_FailureIsolationNonEmptyPool ==
  /\ [][FailureFrame]_vars
  /\ \A t \in 1..MaxTasks : \A k \in 1..MaxStages :
       (pc = "loop" /\ t <= Len(tasks) /\ k <= Len(job.Runs)
          /\ Len(job.Cpus) > 0)
         ~> (StageDispatched(t, k) \/ CancelledBefore(t, k))

\* ------------------------------------------------------------------------
\* C22. Cursor bounds: at the start of every iteration with a non-empty
\* wait list 0 <= i < waitList.Len(), whatever was removed before; so
\* waitList.Get(i) never fails and the cursor-reset branch is never taken.
\* ------------------------------------------------------------------------
CursorInBounds ==
  (pc \in {"loop", "get"} /\ Len(waitList) > 0) =>
     (0 <= i /\ i < Len(waitList))

\* a step from the Get is never the `continue` of the reset branch
GetSucceeds == pc = "get" => pc' # "loop"

C22_CursorBounds == []CursorInBounds /\ [][GetSucceeds]_vars

\* The driver is about to get the only task left, after a removal.
C22_Witness ==
  /\ pc = "get"
  /\ Len(waitList) = 1
  /\ Len(tasks) = 2
  /\ i = 0

\* ------------------------------------------------------------------------
\* C23. Allocation never fails: every core id the driver sets is still
\* vacant, so every Set succeeds, the retry branch with the offset is never
\* taken and the allocation loop ends after exactly next.cores Set calls.
\* ------------------------------------------------------------------------
SetSucceeds ==
  pc = "set" =>
     /\ j = 1
     /\ cores # <<>>
     /\ CanSet(coreMap, cores[Len(cores) - j + 1])

\* every turn of the allocation loop takes one id off cores
SetTurn ==
  (pc = "set" /\ <<cores, j, coreMap>>' # <<cores, j, coreMap>>
     /\ atrs' = atrs) =>
     /\ Len(cores') = Len(cores) - 1
     /\ j' = 1
     /\ coreMap'[cores[Len(cores)]] = activeTaskRun

C23_AllocationSucceeds ==
  /\ []SetSucceeds
  /\ [][SetTurn]_vars
  /\ [](pc = "set" =>
          Len(cores) + Cardinality({c \in DOMAIN coreMap :
                                      coreMap[c] = activeTaskRun})
            = Len(atrs[activeTaskRun].CoreIds))

\* The driver is setting the second core of a run while another run that
\* held a core at the snapshot has begun to release.
C23_Witness ==
  /\ pc = "set"
  /\ Len(atrs[activeTaskRun].CoreIds) = 2
  /\ Len(cores) = 1
  /\ \E a \in Atrs : a # activeTaskRun /\ atrs[a].st \in {"release", "finished"}

\* ------------------------------------------------------------------------
\* C24. Expansion terminates: for every integer declaration that passes
\* validation (min <= max, step not zero, step mode empty, "increment" or
\* "power") the enumeration of its values ends, so Job.tasks returns.
\* ------------------------------------------------------------------------
C24_ExpansionTerminates ==
  (/\ pc # "new"
   /\ \A k \in 1..Len(job.Params) :
        job.Params[k].Type \in {"int", "integer"} =>
          (IsRange(job.Params[k])
             /\ job.Params[k].StepMode \in {"", "increment", "power"}))
  => pc # "diverges"

\* ------------------------------------------------------------------------
\* C25. Exclusion blocks only on a task's own run: the exclusion test makes
\* the driver skip task T only if an ActiveTaskRun of T itself is in the
\* core map, for every job (also when the `only` list repeats a value).
\* ------------------------------------------------------------------------
SkippedByExclusion == pc = "excl" /\ pc' = "iterator"

C25_OwnRunOnly ==
  [][SkippedByExclusion => \E a \in InCoreMap : atrs[a].Task = task]_vars
====
